---- MODULE Spec2Model ----
(***************************************************************************)
(* A model of streamlit-youtune.py: a Streamlit script that downloads a    *)
(* video, samples every Nth frame, drops mostly black/white frames, lets   *)
(* the user choose frames in a checkbox gallery and zips the choice.       *)
(*                                                                         *)
(* One execution of main() (a "script run") is a walk of pc through        *)
(*   idle -> extraction -> (extract_loop -> extracted ->) selection        *)
(*        -> cleanup -> idle                                               *)
(* one action per top-level block of main(), and one action per iteration  *)
(* of the while loop of extract_frames.  File names are sequences of       *)
(* one-character strings, so that formatting, splitext and sorted() are    *)
(* computed as the code computes them.                                     *)
(***************************************************************************)
EXTENDS Integers, Sequences, FiniteSets, TLC

\* ------------------------------------------------------------------ bounds

\* The longest video, in decoded frames, that cap.read() delivers.
MaxFrames == 3
\* The largest sampling interval the user types (besides the widget default).
MaxInterval == 2
\* The number of pixels of a decoded frame.
FramePixels == 20

\* ------------------------------------------------------- program constants

DefaultInterval == 50
ThresholdPct == 95
BlackBelow == 30
WhiteAbove == 225
PadWidth == 5

\* ------------------------------------------------------------- characters

\* The characters of the file names the program builds, in code point order
\* (Python compares strings by code point).
Alphabet ==
    << ".", "0", "1", "2", "3", "4", "5", "6", "7", "8", "9", "_",
       "a", "b", "c", "d", "e", "f", "g", "h", "i", "j", "k", "l", "m",
       "n", "o", "p", "q", "r", "s", "t", "u", "v", "w", "x", "y", "z" >>

Ord(c) == CHOOSE i \in 1..Len(Alphabet) : Alphabet[i] = c

DigitChar(d) == Alphabet[d + 2]

\* str.__lt__ : lexicographic order by code point, a proper prefix first.
RECURSIVE StrLess(_, _)
StrLess(a, b) ==
    IF a = <<>> THEN b # <<>>
    ELSE IF b = <<>> THEN FALSE
    ELSE IF Head(a) # Head(b) THEN Ord(Head(a)) < Ord(Head(b))
    ELSE StrLess(Tail(a), Tail(b))

\* sorted(names): the names of a set in ascending order.
RECURSIVE Sorted(_)
Sorted(S) ==
    IF S = {} THEN <<>>
    ELSE LET m == CHOOSE x \in S : \A y \in S \ {x} : StrLess(x, y)
         IN  <<m>> \o Sorted(S \ {m})

\* The decimal digits of n >= 0.
RECURSIVE Digits(_)
Digits(n) ==
    IF n < 10 THEN << DigitChar(n) >>
    ELSE Digits(n \div 10) \o << DigitChar(n % 10) >>

\* format(n, "05d"): zero-padded on the left to PadWidth, never truncated.
RECURSIVE ZeroPad(_, _)
ZeroPad(s, w) == IF Len(s) >= w THEN s ELSE ZeroPad(<<"0">> \o s, w)

\* f"frame_{extracted_count:05d}.jpg" (the folder is left out: every frame
\* file lives in the one frames folder).
FrameName(n) ==
    <<"f", "r", "a", "m", "e", "_">> \o ZeroPad(Digits(n), PadWidth)
        \o <<".", "j", "p", "g">>

\* p.rfind("."): the last index of a dot, 0 when there is none.
LastDot(p) ==
    LET dots == { i \in 1..Len(p) : p[i] = "." }
    IN  IF dots = {} THEN 0 ELSE CHOOSE i \in dots : \A j \in dots : j <= i

\* os.path.splitext(p) for a name without a directory separator: split at
\* the last dot, unless only dots precede it.
SplitExt(p) ==
    LET d == LastDot(p)
    IN  IF d > 0 /\ \E i \in 1..(d - 1) : p[i] # "."
        THEN [name |-> SubSeq(p, 1, d - 1), ext |-> SubSeq(p, d, Len(p))]
        ELSE [name |-> p, ext |-> <<>>]

\* The archive name zip_selected_frames gives one file.
NewNameSwapped(img_file, trigger_word) ==
    LET split == SplitExt(img_file)
    IN  IF trigger_word # <<>>
        THEN trigger_word \o <<"_">> \o split.name \o split.ext
        ELSE img_file

NewName(img_file, trigger_word) ==
    LET split == SplitExt(img_file)
    IN  IF trigger_word # <<>>
        THEN split.name \o <<"_">> \o trigger_word \o split.ext
        ELSE img_file

\* ------------------------------------------------------------------ frames

\* A decoded frame is a sequence of runs of equal pixels; a pixel is
\* <<blue, green, red>>, each 0..255.
Px(b, g, r) == <<b, g, r>>

\* cv2.cvtColor(frame, cv2.COLOR_BGR2GRAY) on one 8-bit pixel: OpenCV's
\* fixed-point weights (sum 2^15), rounded to nearest.
Gray(px) == (px[1] * 3735 + px[2] * 19235 + px[3] * 9798 + 16384) \div 32768

\* The gray frame: cvtColor applied to every pixel of every run.
cvtColor(frame) ==
    [i \in 1..Len(frame) |-> [g |-> Gray(frame[i].px), n |-> frame[i].n]]

\* The number of pixels of a sequence of runs.
RECURSIVE RunTotal(_)
RunTotal(runs) ==
    IF runs = <<>> THEN 0 ELSE Head(runs).n + RunTotal(Tail(runs))

IsBlack(run) == run.g < BlackBelow
IsWhite(run) == run.g > WhiteAbove

\* The comparison num / num_pixels > threshold.  The quotient of two
\* integers below 2^53 and the literal 0.95 are both correctly rounded, and
\* two distinct fractions of a frame's pixels differ by far more than one
\* unit in the last place, so the float comparison is the exact one.
Exceeds(num, num_pixels) == num * 100 > ThresholdPct * num_pixels

is_black_frame_only(frame) ==
    LET gray_frame == cvtColor(frame)
    IN  Exceeds(RunTotal(SelectSeq(gray_frame, IsBlack)), RunTotal(gray_frame))

is_black_or_white_frame(frame) ==
    LET gray_frame == cvtColor(frame)
        num_pixels == RunTotal(gray_frame)
        num_black_pixels == RunTotal(SelectSeq(gray_frame, IsBlack))
        num_white_pixels == RunTotal(SelectSeq(gray_frame, IsWhite))
    IN  Exceeds(num_black_pixels, num_pixels)
            \/ Exceeds(num_white_pixels, num_pixels)

\* The frames cap.read() may deliver: FramePixels pixels each, k of them of
\* one colour and the rest mid grey.
Mid == Px(128, 128, 128)

TwoTone(px, k) ==
    IF k = 0 THEN << [px |-> Mid, n |-> FramePixels] >>
    ELSE IF k = FramePixels THEN << [px |-> px, n |-> k] >>
    ELSE << [px |-> px, n |-> k], [px |-> Mid, n |-> FramePixels - k] >>

\* The largest pixel count that is at most ThresholdPct of the frame.
AtThreshold == (ThresholdPct * FramePixels) \div 100

FrameSet ==
    { TwoTone(Px(0, 0, 0), 0),
      TwoTone(Px(0, 0, 0), AtThreshold),
      TwoTone(Px(0, 0, 0), AtThreshold + 1),
      TwoTone(Px(255, 0, 0), FramePixels),
      TwoTone(Px(30, 30, 30), FramePixels),
      TwoTone(Px(255, 255, 255), AtThreshold),
      TwoTone(Px(255, 255, 255), FramePixels),
      TwoTone(Px(225, 225, 225), FramePixels) }

\* ------------------------------------------------------------------- state

VARIABLES
    \* st.session_state
    app_stage, selected_frames, youtube_url, frame_interval, dataset_name,
    trigger_word,
    \* the file system: the videos folder, the frames folder and the names of
    \* the files in it
    videos, frames_exists, frame_files,
    \* the browser: the widgets the last run drew, the checkboxes turned off
    screen, unchecked,
    \* main(): position, the widgets' return values, download's return value
    pc, ui, video_path,
    \* extract_frames(): its locals
    frame_count, extracted_count, frame,
    \* what the run in progress has reported (st.error, st.warning), called,
    \* and written as its zip file (NoArchive: it has written none)
    msgs, calls, archive,
    \* extract_frames(): the frame indices it tested, the files it wrote
    candidates, saved

vars ==
    << app_stage, selected_frames, youtube_url, frame_interval, dataset_name,
       trigger_word, videos, frames_exists, frame_files, screen, unchecked,
       pc, ui, video_path, frame_count, extracted_count, frame, msgs, calls,
       archive, candidates, saved >>

session == << app_stage, selected_frames, youtube_url, frame_interval,
              dataset_name, trigger_word >>
disk == << videos, frames_exists, frame_files >>
report == << msgs, calls, archive >>
extract_locals == << frame_count, extracted_count, frame, candidates, saved >>

Stages == {"input", "extraction", "selection"}

None == "None"
NoFrame == <<>>
NoFiles == {}
NoArchive == [name |-> None, entries |-> <<>>]

\* What the user can type into the input form.
Urls == {"", "https://youtu.be/v"}
Intervals == (1..MaxInterval) \cup {DefaultInterval}
Datasets == {"frames_dataset", "cats"}
Triggers == {<<>>, <<"t", "o", "k">>}

\* The values the widgets return when they were not on screen (first drawn
\* in this run), or are not drawn at all.  The state keeps, of the widgets'
\* values, the ones main() branches on: ui.
FreshWidgets ==
    [youtube_url |-> "", frame_interval |-> DefaultInterval,
     dataset_name |-> "frames_dataset", trigger_word |-> <<>>,
     extract_button |-> FALSE]

FreshUi == [youtube_url |-> "", extract_button |-> FALSE, proceed |-> FALSE]

\* The values the form may return when the user had it on screen.
FormWidgets ==
    [youtube_url : Urls, frame_interval : Intervals, dataset_name : Datasets,
     trigger_word : Triggers, extract_button : BOOLEAN]

Init ==
    /\ app_stage = "input"
    /\ selected_frames = <<>>
    /\ youtube_url = ""
    /\ frame_interval = DefaultInterval
    /\ dataset_name = "frames_dataset"
    /\ trigger_word = <<>>
    /\ videos = "absent"
    /\ frames_exists = FALSE
    /\ frame_files = NoFiles
    /\ archive = NoArchive
    /\ screen = {}
    /\ unchecked = {}
    /\ pc = "idle"
    /\ ui = FreshUi
    /\ video_path = None
    /\ frame_count = 0
    /\ extracted_count = 0
    /\ frame = NoFrame
    /\ msgs = {}
    /\ calls = {}
    /\ candidates = {}
    /\ saved = <<>>

\* ----------------------------------------------------------- input (130-142)

\* `if extract_button and youtube_url:`
ShouldExtractAnyUrl(extract_button, url) == extract_button

ShouldExtract(extract_button, url) == extract_button /\ url # ""

\* A run that starts in the input stage.  The form's widgets return what the
\* user typed only if the previous run drew the form; otherwise they are
\* drawn now and return their initial values.
InputBlock ==
    /\ pc = "idle"
    /\ app_stage = "input"
    /\ \E w \in (IF "form" \in screen THEN FormWidgets ELSE {FreshWidgets}) :
          /\ ui' = [youtube_url |-> w.youtube_url,
                    extract_button |-> w.extract_button, proceed |-> FALSE]
          /\ IF ShouldExtract(w.extract_button, w.youtube_url)
             THEN /\ youtube_url' = w.youtube_url
                  /\ frame_interval' = w.frame_interval
                  /\ dataset_name' = w.dataset_name
                  /\ trigger_word' = w.trigger_word
                  /\ app_stage' = "extraction"
             ELSE UNCHANGED << youtube_url, frame_interval, dataset_name,
                               trigger_word, app_stage >>
    /\ screen' = {"form"}
    /\ msgs' = {}
    /\ calls' = {}
    /\ archive' = NoArchive
    /\ pc' = "extraction"
    /\ UNCHANGED << selected_frames, disk, unchecked, video_path,
                    extract_locals >>

\* A run that starts in another stage: the form is not drawn.  If the gallery
\* is on screen the user may have pressed "Proceed to Download" or flipped
\* one checkbox; any other event just reruns the script.
SkipInputBlock ==
    /\ pc = "idle"
    /\ app_stage # "input"
    /\ \/ /\ ui' = FreshUi
          /\ UNCHANGED unchecked
       \/ /\ "gallery" \in screen
          /\ ui' = [FreshUi EXCEPT !.proceed = TRUE]
          /\ UNCHANGED unchecked
       \/ /\ "gallery" \in screen
          /\ ui' = FreshUi
          /\ \E f \in frame_files :
                unchecked' = IF f \in unchecked THEN unchecked \ {f}
                             ELSE unchecked \cup {f}
    /\ screen' = {}
    /\ msgs' = {}
    /\ calls' = {}
    /\ archive' = NoArchive
    /\ pc' = "extraction"
    /\ UNCHANGED << session, disk, video_path, extract_locals >>

\* ------------------------------------------------------ extraction (144-166)

\* download_youtube_video: a file name and title, or st.error and (None, None).
\* The folder is made first, so a failure may leave it behind.
DownloadOutcomes ==
    { [path |-> "videos/v.mp4", videos |-> "file", error |-> FALSE] }
    \cup { [path |-> None, videos |-> v, error |-> TRUE] :
             v \in (IF videos = "absent" THEN {"absent", "empty"} ELSE {videos}) }

\* `if video_path:`
DownloadedAlways(path) == TRUE

Downloaded(path) == path # None

\* The block is skipped in the other stages.
SkipExtractionBlock ==
    /\ pc = "extraction"
    /\ app_stage # "extraction"
    /\ pc' = "selection"
    /\ UNCHANGED << session, disk, screen, unchecked, ui, video_path,
                    extract_locals, msgs, calls, archive >>

\* Lines 147-157 and 42-52: the download and, if it gave a path, the entry
\* of extract_frames (the folder is made, the counters start at 0).
DownloadBlock ==
    /\ pc = "extraction"
    /\ app_stage = "extraction"
    /\ \E r \in DownloadOutcomes :
          /\ video_path' = r.path
          /\ videos' = r.videos
          /\ msgs' = IF r.error THEN msgs \cup {"error_download"} ELSE msgs
          /\ IF Downloaded(r.path)
             THEN /\ frames_exists' = TRUE
                  /\ calls' = calls \cup {"download_youtube_video", "extract_frames"}
                  /\ pc' = "extract_loop"
             ELSE /\ frames_exists' = frames_exists
                  /\ calls' = calls \cup {"download_youtube_video"}
                  /\ pc' = "selection"
    /\ frame_count' = 0
    /\ extracted_count' = 0
    /\ frame' = NoFrame
    /\ candidates' = {}
    /\ saved' = <<>>
    /\ UNCHANGED << session, frame_files, archive, screen, unchecked, ui >>

\* `if frame_count % frame_interval == 0:`
IsSampledOffByOne(count, interval) == (count + 1) % interval = 0

IsSampled(count, interval) == count % interval = 0

\* The number in the name of the next file written.
SaveIndexByPosition(count, extracted) == count

SaveIndex(count, extracted) == extracted

\* One iteration of the while loop (54-66) that decodes a frame.
ReadFrame ==
    /\ pc = "extract_loop"
    /\ frame_count < MaxFrames
    /\ \E f \in FrameSet :
          /\ frame' = f
          /\ IF IsSampled(frame_count, frame_interval)
             THEN /\ candidates' = candidates \cup {frame_count}
                  /\ IF ~is_black_or_white_frame(f)
                     THEN LET frame_filename ==
                                  FrameName(SaveIndex(frame_count, extracted_count))
                          IN  /\ frame_files' = frame_files \cup {frame_filename}
                              /\ saved' = Append(saved, [name |-> frame_filename,
                                                         pos |-> frame_count])
                              /\ extracted_count' = extracted_count + 1
                     ELSE UNCHANGED << frame_files, saved, extracted_count >>
             ELSE UNCHANGED << candidates, frame_files, saved, extracted_count >>
    /\ frame_count' = frame_count + 1
    /\ UNCHANGED << session, videos, frames_exists, archive, screen, unchecked,
                    pc, ui, video_path, msgs, calls >>

\* The iteration in which cap.read() returns no frame (or the capture never
\* opened): the loop ends.
EndOfVideo ==
    /\ pc = "extract_loop"
    /\ frame' = NoFrame
    /\ pc' = "extracted"
    /\ UNCHANGED << session, disk, screen, unchecked, ui, video_path,
                    frame_count, extracted_count, candidates, saved, report >>

\* Lines 159-166: os.remove(video_path), which may fail with a warning, then
\* the stage moves on.
FinishExtraction ==
    /\ pc = "extracted"
    /\ \/ /\ videos' = "empty"
          /\ UNCHANGED msgs
       \/ /\ videos' = videos
          /\ msgs' = msgs \cup {"warning_video_file"}
    /\ app_stage' = "selection"
    /\ pc' = "selection"
    /\ frame_count' = 0
    /\ extracted_count' = 0
    /\ candidates' = {}
    /\ saved' = <<>>
    /\ UNCHANGED << selected_frames, youtube_url, frame_interval, dataset_name,
                    trigger_word, frames_exists, frame_files, archive, screen,
                    unchecked, ui, video_path, frame, calls >>

\* ------------------------------------------------------- selection (168-212)

\* `if include_frame:` with the checkbox's value for img_file.
IncludedInverted(img_file) == img_file \in unchecked

Included(img_file) == img_file \notin unchecked

\* display_and_select_frames: the sorted listing, filtered by the checkboxes.
display_and_select_frames ==
    SelectSeq(Sorted(frame_files), Included)

\* zip_selected_frames: ZipFile(f"{output_zip}.zip", "w"), one entry per file.
zip_selected_frames(output_zip, selected, trigger) ==
    [name |-> output_zip \o ".zip",
     entries |-> [i \in 1..Len(selected) |-> NewName(selected[i], trigger)]]

\* `if not st.session_state.selected_frames:` refuses; otherwise packaging.
CanPackageAlways(selected) == TRUE

CanPackage(selected) == selected # <<>>

\* The stage written at line 198.
StageAfterPackagingWrong == "extraction"

StageAfterPackaging == "input"

\* shutil.rmtree(frames_path) inside try/except: the folder is gone, or an
\* exception left the folder with some of its files and a warning is shown.
FramesRmtree ==
    IF frames_exists
    THEN { [exists |-> FALSE, files |-> NoFiles, warned |-> FALSE] }
         \cup { [exists |-> TRUE, files |-> S, warned |-> TRUE] :
                   S \in SUBSET frame_files }
    ELSE { [exists |-> FALSE, files |-> NoFiles, warned |-> TRUE] }

\* `if os.path.exists(output_path):` shutil.rmtree(output_path) in try/except.
VideosRmtree ==
    IF videos # "absent"
    THEN { [videos |-> "absent", warned |-> FALSE] }
         \cup { [videos |-> v, warned |-> TRUE] : v \in {videos, "empty"} }
    ELSE { [videos |-> "absent", warned |-> FALSE] }

Warnings(rf, rv) ==
    (IF rf.warned THEN {"warning_frames_dir"} ELSE {})
        \cup (IF rv.warned THEN {"warning_videos_dir"} ELSE {})

SkipSelectionBlock ==
    /\ pc = "selection"
    /\ app_stage # "selection"
    /\ pc' = "cleanup"
    /\ UNCHANGED << session, disk, screen, unchecked, ui, video_path,
                    extract_locals, msgs, calls, archive >>

\* The gallery is drawn and its selection stored; "Proceed" was not pressed.
SelectFrames ==
    /\ pc = "selection"
    /\ app_stage = "selection"
    /\ ~ui.proceed
    /\ selected_frames' = display_and_select_frames
    /\ screen' = screen \cup {"gallery"}
    /\ pc' = "cleanup"
    /\ UNCHANGED << app_stage, youtube_url, frame_interval, dataset_name,
                    trigger_word, disk, unchecked, ui, video_path,
                    extract_locals, msgs, calls, archive >>

\* "Proceed" with nothing selected: st.error, nothing else.
RefuseEmpty ==
    /\ pc = "selection"
    /\ app_stage = "selection"
    /\ ui.proceed
    /\ ~CanPackage(display_and_select_frames)
    /\ selected_frames' = display_and_select_frames
    /\ screen' = screen \cup {"gallery"}
    /\ msgs' = msgs \cup {"error_no_frames"}
    /\ pc' = "cleanup"
    /\ UNCHANGED << app_stage, youtube_url, frame_interval, dataset_name,
                    trigger_word, disk, unchecked, ui, video_path,
                    extract_locals, calls, archive >>

\* "Proceed" with a selection: the zip is written, the stage is reset, and
\* both folders are removed, each removal in its own try/except.
Package ==
    /\ pc = "selection"
    /\ app_stage = "selection"
    /\ ui.proceed
    /\ CanPackage(display_and_select_frames)
    /\ selected_frames' = display_and_select_frames
    /\ screen' = screen \cup {"gallery"}
    /\ archive' = zip_selected_frames(dataset_name, display_and_select_frames,
                                      trigger_word)
    /\ calls' = calls \cup {"zip_selected_frames"}
    /\ app_stage' = StageAfterPackaging
    /\ \E rf \in FramesRmtree, rv \in VideosRmtree :
          /\ frames_exists' = rf.exists
          /\ frame_files' = rf.files
          /\ videos' = rv.videos
          /\ msgs' = msgs \cup Warnings(rf, rv)
    /\ pc' = "cleanup"
    /\ UNCHANGED << youtube_url, frame_interval, dataset_name, trigger_word,
                    unchecked, ui, video_path, extract_locals >>

\* --------------------------------------------------------- cleanup (214-225)

\* `if st.session_state.app_stage == 'input':`
NeedsCleanupNever(stage) == FALSE

NeedsCleanup(stage) == stage = "input"

\* The script returns: its locals are gone.  Streamlit forgets the state of
\* widgets the run did not draw, so the checkboxes of a gallery no longer
\* shown start anew.
EndOfRun ==
    /\ pc' = "idle"
    /\ ui' = FreshUi
    /\ video_path' = None
    /\ unchecked' = IF "gallery" \in screen THEN unchecked ELSE {}

\* The residual folders are removed when the run ends in the input stage.
CleanupBlock ==
    /\ pc = "cleanup"
    /\ NeedsCleanup(app_stage)
    /\ \E rf \in (IF frames_exists THEN FramesRmtree
                  ELSE {[exists |-> FALSE, files |-> NoFiles, warned |-> FALSE]}),
          rv \in VideosRmtree :
          /\ frames_exists' = rf.exists
          /\ frame_files' = rf.files
          /\ videos' = rv.videos
          /\ msgs' = msgs \cup Warnings(rf, rv)
    /\ EndOfRun
    /\ UNCHANGED << session, archive, screen, extract_locals, calls >>

SkipCleanupBlock ==
    /\ pc = "cleanup"
    /\ ~NeedsCleanup(app_stage)
    /\ EndOfRun
    /\ UNCHANGED << session, disk, screen, extract_locals, msgs, calls, archive >>

\* ------------------------------------------------------------ specification

Next ==
    \/ InputBlock
    \/ SkipInputBlock
    \/ SkipExtractionBlock
    \/ DownloadBlock
    \/ ReadFrame
    \/ EndOfVideo
    \/ FinishExtraction
    \/ SkipSelectionBlock
    \/ SelectFrames
    \/ RefuseEmpty
    \/ Package
    \/ CleanupBlock
    \/ SkipCleanupBlock

Spec == Init /\ [][Next]_vars

\* ------------------------------------------------------------------- claims

Jpg == <<".", "j", "p", "g">>
Selected == { selected_frames[i] : i \in 1..Len(selected_frames) }
fields == << youtube_url, frame_interval, dataset_name, trigger_word >>

\* C1: once zip_selected_frames has run, the archive has one entry per
\* selected file name, in order: the name itself when the trigger word is
\* empty, and otherwise the name with "_<trigger word>" put before its ".jpg".
C1_ArchiveIsSelection ==
    "zip_selected_frames" \in calls =>
        /\ Len(archive.entries) = Len(selected_frames)
        /\ \A i \in 1..Len(selected_frames) :
              LET f == selected_frames[i]
                  stem == SubSeq(f, 1, Len(f) - Len(Jpg))
              IN  /\ f = stem \o Jpg
                  /\ archive.entries[i] =
                        IF trigger_word = <<>> THEN f
                        ELSE stem \o <<"_">> \o trigger_word \o Jpg

\* A proper subset of several files was zipped with a trigger word.
C1_Witness ==
    /\ "zip_selected_frames" \in calls
    /\ trigger_word # <<>>
    /\ Len(selected_frames) >= 2
    /\ unchecked # {}

\* C2: "Proceed to Download" with an empty selection reports the error and
\* does nothing else, from the selection block to the end of the run: no call
\* of zip_selected_frames, no archive, the stage stays "selection" and the
\* frames folder stays as it is.
C2_EmptySelectionRefused ==
    [][ /\ (pc = "selection" /\ app_stage = "selection" /\ ui.proceed
               /\ selected_frames' = <<>>)
           => /\ "error_no_frames" \in msgs'
              /\ "zip_selected_frames" \notin calls'
              /\ archive' = NoArchive
              /\ app_stage' = "selection"
              /\ frames_exists' /\ frame_files' = frame_files
        /\ (pc = "cleanup" /\ "error_no_frames" \in msgs)
           => /\ "zip_selected_frames" \notin calls'
              /\ archive' = NoArchive
              /\ app_stage' = "selection"
              /\ frames_exists' /\ frame_files' = frame_files
      ]_vars

\* The user turned every checkbox of a non-empty gallery off and pressed
\* the button; the run has ended.
C2_Witness ==
    /\ pc = "idle"
    /\ "error_no_frames" \in msgs
    /\ frame_files # {}

\* C3: a download that gives no path reports an error, and from then to the
\* end of the run extract_frames is not called, the frames folder does not
\* change and the stage stays "extraction".
C3_DownloadFailureHalts ==
    [][ /\ (pc = "extraction" /\ app_stage = "extraction" /\ video_path' = None)
           => "error_download" \in msgs'
        /\ "error_download" \in msgs'
           => /\ video_path' = None
              /\ "extract_frames" \notin calls'
              /\ pc' \in {"selection", "cleanup", "idle"}
              /\ frames_exists' = frames_exists /\ frame_files' = frame_files
              /\ app_stage' = "extraction"
      ]_vars

\* A run whose download failed has ended.
C3_Witness ==
    /\ pc = "idle"
    /\ "error_download" \in msgs
    /\ app_stage = "extraction"

BlackCount(f) == RunTotal(SelectSeq(cvtColor(f), IsBlack))
WhiteCount(f) == RunTotal(SelectSeq(cvtColor(f), IsWhite))
Decoded == pc = "extract_loop" /\ frame_count' = frame_count + 1
NothingSaved == saved' = saved /\ frame_files' = frame_files

\* C4 as stated: a decoded frame with at least 95% of its pixels below 30,
\* or at least 95% above 225, is not saved.
C4_AtLeastThresholdExcluded ==
    [][ (Decoded /\ (\/ 100 * BlackCount(frame') >= 95 * RunTotal(frame')
                     \/ 100 * WhiteCount(frame') >= 95 * RunTotal(frame')))
        => NothingSaved ]_vars

\* C4, amended: a decoded frame with more than 95% of its pixels below 30,
\* or more than 95% above 225, is not saved.
C4_AboveThresholdExcluded ==
    [][ (Decoded /\ (\/ 100 * BlackCount(frame') > 95 * RunTotal(frame')
                     \/ 100 * WhiteCount(frame') > 95 * RunTotal(frame')))
        => NothingSaved ]_vars

\* A sampled frame that is all white was decoded after a saved one, and
\* was not saved.
C4_Witness ==
    /\ pc = "extract_loop"
    /\ frame # NoFrame
    /\ 100 * WhiteCount(frame) > 95 * RunTotal(frame)
    /\ frame_count - 1 \in candidates
    /\ Len(saved) = 1
    /\ frame_count = 2

\* C5: during and after extract_frames the files it has written are
\* frame_00000.jpg, frame_00001.jpg, ... with no gap and no repeat, one per
\* saved frame, numbered in the order the frames were decoded, and all are
\* in the frames folder.
C5_SavedNumbering ==
    pc \in {"extract_loop", "extracted"} =>
        /\ Len(saved) = extracted_count
        /\ \A i \in 1..Len(saved) :
              /\ saved[i].name =
                    <<"f", "r", "a", "m", "e", "_", "0", "0", "0", "0",
                      DigitChar(i - 1)>> \o Jpg
              /\ saved[i].name \in frame_files
        /\ \A i, j \in 1..Len(saved) :
              i < j => /\ saved[i].pos < saved[j].pos
                       /\ saved[i].name # saved[j].name

\* Two frames were saved with a skipped black/white frame between them.
C5_Witness ==
    /\ pc = "extracted"
    /\ frame_interval = 1
    /\ Len(saved) = 2
    /\ saved[2].pos = saved[1].pos + 2

\* C6: during and after extract_frames, with interval N and T frames decoded
\* so far, the frames tested are exactly those at 0, N, 2N, ... below T;
\* there are at most ceil(T / N) of them, and no more files saved than that.
C6_CandidatesEveryNth ==
    pc \in {"extract_loop", "extracted"} =>
        /\ frame_interval >= 1
        /\ candidates = { k * frame_interval : k \in 0..frame_count }
                            \cap (0..(frame_count - 1))
        /\ Cardinality(candidates)
              <= (frame_count + frame_interval - 1) \div frame_interval
        /\ extracted_count <= Cardinality(candidates)

\* Three frames at interval 2: frames 0 and 2 tested, one of them saved.
C6_Witness ==
    /\ pc = "extracted"
    /\ frame_interval = 2
    /\ frame_count = 3
    /\ candidates = {0, 2}
    /\ extracted_count = 1

\* C7: the stage is always input, extraction or selection, and every change
\* of it is input -> extraction (Extract pressed, URL not empty),
\* extraction -> selection (download gave a path, extract_frames ran) or
\* selection -> input (a non-empty selection was zipped).
C7_LinearStages ==
    [][ /\ app_stage \in Stages
        /\ app_stage' \in Stages
        /\ app_stage' # app_stage =>
              \/ /\ app_stage = "input" /\ app_stage' = "extraction"
                 /\ ui'.extract_button /\ ui'.youtube_url # ""
              \/ /\ app_stage = "extraction" /\ app_stage' = "selection"
                 /\ video_path # None
                 /\ "extract_frames" \in calls
                 /\ "error_download" \notin msgs
              \/ /\ app_stage = "selection" /\ app_stage' = "input"
                 /\ "zip_selected_frames" \in calls'
                 /\ selected_frames' # <<>>
      ]_vars

\* The whole cycle was walked: a run zipped a selection and is back at input.
C7_Witness ==
    /\ app_stage = "input"
    /\ "zip_selected_frames" \in calls
    /\ pc = "idle"

\* C8 as stated: in every state the selected file names are files of the
\* frames folder; once the gallery has returned, with no checkbox off, they
\* are the whole sorted listing.
C8_SelectedAlwaysOnDisk ==
    /\ Selected \subseteq frame_files
    /\ (app_stage = "selection" /\ "gallery" \in screen /\ unchecked = {})
          => selected_frames = Sorted(frame_files)

\* C8, amended: while the stage is "selection" and the gallery has been
\* drawn by the run in progress or just ended, the selected file names are
\* files of the frames folder, and with no checkbox off they are the whole
\* sorted listing.
C8_SelectedOnDiskInSelection ==
    (app_stage = "selection" /\ "gallery" \in screen) =>
        /\ frames_exists
        /\ Selected \subseteq frame_files
        /\ unchecked = {} => selected_frames = Sorted(frame_files)

\* A proper, non-empty subset of the gallery is selected.
C8_Witness ==
    /\ app_stage = "selection"
    /\ "gallery" \in screen
    /\ unchecked # {}
    /\ selected_frames # <<>>
    /\ pc = "idle"

\* C9: after packaging, and at the end of a run that ends in the input
\* stage, each of the two folders is gone or its removal failed with a
\* warning; a warning about the video file leaves the stage at "selection"
\* and a warning about a folder leaves it at "input", the run going on.
C9_CleanupBestEffort ==
    /\ (\/ pc \in {"cleanup", "idle"} /\ "zip_selected_frames" \in calls
        \/ pc = "idle" /\ app_stage = "input")
          => /\ frames_exists => "warning_frames_dir" \in msgs
             /\ videos # "absent" => "warning_videos_dir" \in msgs
    /\ "warning_video_file" \in msgs
          => app_stage = "selection" /\ pc \in {"selection", "cleanup", "idle"}
    /\ ("warning_frames_dir" \in msgs \/ "warning_videos_dir" \in msgs)
          => app_stage = "input" /\ pc \in {"cleanup", "idle"}

\* Packaging ended with the videos folder removed and the frames folder left
\* behind with a warning.
C9_Witness ==
    /\ pc = "idle"
    /\ app_stage = "input"
    /\ "zip_selected_frames" \in calls
    /\ "warning_frames_dir" \in msgs
    /\ frames_exists
    /\ videos = "absent"

\* C10: the stored URL, interval, dataset name and trigger word change only
\* in the step from input to extraction; a run in the input stage without
\* the button, or with an empty URL, leaves them and the stage alone and
\* attempts no download.
C10_FieldsWrittenWithTransition ==
    [][ /\ fields' # fields
           => pc = "idle" /\ app_stage = "input" /\ app_stage' = "extraction"
        /\ (pc = "idle" /\ app_stage = "input"
               /\ ~(ui'.extract_button /\ ui'.youtube_url # ""))
           => app_stage' = "input" /\ fields' = fields
        /\ ("form" \in screen' /\ app_stage' = "input")
           => "download_youtube_video" \notin calls'
      ]_vars

\* After an earlier cycle stored a dataset name, Extract was pressed with an
\* empty URL and the run stayed in the input stage.
C10_Witness ==
    /\ pc = "cleanup"
    /\ app_stage = "input"
    /\ ui.extract_button
    /\ ui.youtube_url = ""
    /\ dataset_name = "cats"
    /\ calls = {}

====
